---- MODULE Spec2Model ----
(***************************************************************************)
(* A model of the Roomba Open Interface session of hardware/RoombaOI.py:   *)
(* the command catalog, the mode-guarded send_command, and the operations  *)
(* built on it.  Every call is one action; the transport's answer to each  *)
(* write (success or failure) is chosen nondeterministically.              *)
(***************************************************************************)
EXTENDS Integers, Sequences, FiniteSets, TLC

VARIABLES current_mode, call, last_switch, baudrate

\* Two callers inside send_command at once: each caller's position and
\* command, whether a lock is put around send_command and who holds it,
\* and the last write with the mode that was current when it was made.
VARIABLES pc, job, locking, owner, wire

callers == <<pc, job, locking, owner, wire>>

vars == <<current_mode, call, last_switch, baudrate, callers>>

(***************************************************************************)
(* class Mode(IntEnum)                                                     *)
(***************************************************************************)
NoChange == -1
Off == 0
Passive == 1
Safe == 2
Full == 3

Mode == {NoChange, Off, Passive, Safe, Full}

Powered == {Passive, Safe, Full}

Driving == {Safe, Full}

(***************************************************************************)
(* class Command(Enum): allowed_modes, new_mode, opcode byte and template. *)
(***************************************************************************)
Entry(allowed, new, bytes) ==
    [allowed_modes |-> allowed, new_mode |-> new, bytes |-> bytes]

Zeros(n) == [i \in 1..n |-> 0]

Command ==
    [Start     |-> Entry({Off, Passive, Safe, Full}, Passive, <<128>>),
     Baud      |-> Entry(Powered, NoChange, <<129>> \o Zeros(1)),
     Control   |-> Entry(Powered, Safe, <<130>>),
     Safe      |-> Entry(Powered, Safe, <<131>>),
     Full      |-> Entry(Powered, Full, <<132>>),
     Power     |-> Entry(Powered, Passive, <<133>>),
     Spot      |-> Entry(Powered, Passive, <<134>>),
     Clean     |-> Entry(Powered, Passive, <<135>>),
     Max       |-> Entry(Powered, Passive, <<136>>),
     Drive     |-> Entry(Driving, NoChange, <<137>> \o Zeros(4)),
     Motors    |-> Entry(Driving, NoChange, <<138>> \o Zeros(1)),
     Song      |-> Entry(Powered, NoChange, <<140>> \o Zeros(34)),
     Play      |-> Entry(Driving, NoChange, <<141>> \o Zeros(1)),
     Dock      |-> Entry(Powered, Passive, <<143>>),
     PwmMotors |-> Entry(Driving, NoChange, <<144>> \o Zeros(3)),
     DirDrive  |-> Entry(Driving, NoChange, <<145>> \o Zeros(4)),
     PwmDrive  |-> Entry(Driving, NoChange, <<146>> \o Zeros(4)),
     Schedule  |-> Entry(Powered, NoChange, <<167>> \o Zeros(15)),
     SetClock  |-> Entry(Powered, NoChange, <<168>> \o Zeros(3))]

Commands == DOMAIN Command

\* A catalog that accepts Song in every mode.
allowed_modes_song_anywhere(command) ==
    IF command = "Song" THEN {Off, Passive, Safe, Full}
    ELSE Command[command].allowed_modes

allowed_modes(command) == Command[command].allowed_modes

\* A catalog in which Power switches the session off.
new_mode_power_off(command) ==
    IF command = "Power" THEN Off ELSE Command[command].new_mode

new_mode(command) == Command[command].new_mode

opcode_byte(command) == Command[command].bytes[1]

(***************************************************************************)
(* Exceptions, as <<type, message, ...>>; <<>> is a normal return.         *)
(***************************************************************************)
NoError == <<>>

ModeViolation(command, mode) == <<"ValueError", "not allowed", command, mode>>

InvalidMode == <<"ValueError", "Invalid mode">>

OverflowError == <<"OverflowError", "can't convert negative int to unsigned">>

NotIterable == <<"TypeError", "'int' object is not iterable">>

NotSubscriptable == <<"TypeError", "'int' object is not subscriptable">>

(***************************************************************************)
(* The extra argument of send_command: None, a list of integers, or a bare  *)
(* integer.                                                                *)
(***************************************************************************)
None == [kind |-> "None", val |-> <<>>]

List(s) == [kind |-> "list", val |-> s]

Bare(n) == [kind |-> "int", val |-> n]

(***************************************************************************)
(* The outcome of one call: the exception it raised, the payloads it       *)
(* handed to the transport, whether the write succeeded, the mode after.   *)
(***************************************************************************)
Outcome(error, sent, delivered, mode) ==
    [error |-> error, sent |-> sent, delivered |-> delivered, mode |-> mode]

Min(a, b) == IF a < b THEN a ELSE b

Max(a, b) == IF a > b THEN a ELSE b

\* The value reduced modulo 256 instead of clamped.
ClampByte_wraps(x) == x % 256

ClampByte(x) == Max(0, Min(x, 255))

Payload(command, extra) ==
    LET payload == <<opcode_byte(command)>> \o
                   (IF extra.kind = "None" THEN <<>> ELSE extra.val)
    IN  [i \in 1..Len(payload) |-> ClampByte(payload[i])]

\* The mode assigned before the write is attempted.
ModeAfterWrite_speculative(mode, command, write_ok) ==
    IF new_mode(command) # NoChange THEN new_mode(command) ELSE mode

\* The mode assigned without testing for the NoChange sentinel.
ModeAfterWrite_unconditional(mode, command, write_ok) ==
    IF write_ok THEN new_mode(command) ELSE mode

ModeAfterWrite(mode, command, write_ok) ==
    IF write_ok /\ new_mode(command) # NoChange
    THEN new_mode(command)
    ELSE mode

\* send_command without the mode guard.
send_command_unguarded(mode, command, extra, write_ok) ==
    IF command \notin Commands
    THEN Outcome(NotSubscriptable, <<>>, FALSE, mode)
    ELSE IF extra.kind = "int"
    THEN Outcome(NotIterable, <<>>, FALSE, mode)
    ELSE Outcome(NoError, <<Payload(command, extra)>>, write_ok,
                 IF write_ok /\ new_mode(command) # NoChange
                 THEN new_mode(command) ELSE mode)

\* A command that is no member of Command has an integer value, and
\* value[0] raises; a bare integer as extra makes payload.extend raise.
send_command(mode, command, extra, write_ok) ==
    IF command \notin Commands
    THEN Outcome(NotSubscriptable, <<>>, FALSE, mode)
    ELSE IF mode \notin allowed_modes(command)
    THEN Outcome(ModeViolation(command, mode), <<>>, FALSE, mode)
    ELSE IF extra.kind = "int"
    THEN Outcome(NotIterable, <<>>, FALSE, mode)
    ELSE Outcome(NoError, <<Payload(command, extra)>>, write_ok,
                 ModeAfterWrite(mode, command, write_ok))

(***************************************************************************)
(* The state after a call: the session's mode, the record of the call,     *)
(* and the opcode of the last delivered payload whose catalog entry names  *)
(* a new mode (0 when there is none), kept from the transport's side.      *)
(***************************************************************************)
CommandOf(opcode) == CHOOSE c \in Commands : opcode_byte(c) = opcode

Switches(payload) == new_mode(CommandOf(payload[1])) # NoChange

Delivered(out) == IF out.delivered THEN out.sent ELSE <<>>

Observe(switch, out) ==
    IF Delivered(out) # <<>> /\ Switches(Delivered(out)[1])
    THEN Delivered(out)[1][1]
    ELSE switch

Record(op, args, before, out) ==
    [op |-> op, args |-> args, mode_before |-> before, error |-> out.error,
     sent |-> out.sent, delivered |-> out.delivered]

Finish(op, args, out) ==
    /\ current_mode' = out.mode
    /\ call' = Record(op, args, current_mode, out)
    /\ last_switch' = Observe(last_switch, out)

Return(op, args, out) ==
    /\ Finish(op, args, out)
    /\ UNCHANGED <<baudrate, callers>>

(***************************************************************************)
(* RoombaOI.__init__                                                       *)
(***************************************************************************)
\* A constructor that assumes the robot answered the Start command.
init_assumes_passive(write_ok) ==
    [send_command(Off, "Start", None, write_ok) EXCEPT !.mode = Passive]

init(write_ok) == send_command(Off, "Start", None, write_ok)

Callers == {"a", "b"}

Idle == [command |-> "none", write_ok |-> FALSE, raised |-> FALSE]

Constructed ==
    \E write_ok \in BOOLEAN :
        /\ current_mode = init(write_ok).mode
        /\ call = Record("__init__", <<>>, Off, init(write_ok))
        /\ last_switch = Observe(0, init(write_ok))
        /\ baudrate = 115200
        /\ pc = [t \in Callers |-> "idle"]
        /\ job = [t \in Callers |-> Idle]
        /\ owner = "none"
        /\ wire = [command |-> "Start", mode |-> Off,
                   write_ok |-> init(write_ok).delivered]

Init == Constructed /\ locking = FALSE

(***************************************************************************)
(* A direct send_command(command, extra) by the caller.                    *)
(***************************************************************************)
Extras == {None, List(<<>>), List(<<0>>), List(<<300>>), List(<<-5, 7>>)}

SendCommand ==
    \E command \in Commands, extra \in Extras, write_ok \in BOOLEAN :
        Return("send_command", <<command, extra>>,
               send_command(current_mode, command, extra, write_ok))

(***************************************************************************)
(* RoombaOI.set_mode                                                       *)
(***************************************************************************)
Targets == Mode \cup {4}

\* A mapping that has no command for Off.
set_mode_command_no_off(target) ==
    IF target = Passive THEN "Start"
    ELSE IF target = Safe THEN "Safe"
    ELSE IF target = Full THEN "Full"
    ELSE "raise"

set_mode_command(target) ==
    IF target = Passive THEN "Start"
    ELSE IF target = Safe THEN "Safe"
    ELSE IF target = Full THEN "Full"
    ELSE IF target = Off THEN "Power"
    ELSE "raise"

set_mode(mode, target, write_ok) ==
    IF set_mode_command(target) = "raise"
    THEN Outcome(InvalidMode, <<>>, FALSE, mode)
    ELSE send_command(mode, set_mode_command(target), None, write_ok)

SetMode ==
    \E target \in Targets, write_ok \in BOOLEAN :
        Return("set_mode", <<target>>,
               set_mode(current_mode, target, write_ok))

(***************************************************************************)
(* RoombaOI.drive                                                          *)
(***************************************************************************)
Velocities == {-501, -500, -1, 0, 1, 200, 255, 256, 500, 900}

Radii == {-2001, -2000, -1, 0, 1, 500, 2000, 2001}

Clamp(x, lo, hi) == Min(Max(x, lo), hi)

\* int.to_bytes(2, 'big'), unsigned: a negative value raises OverflowError.
to_bytes(n) ==
    IF n < 0 \/ n > 65535
    THEN [error |-> OverflowError, bytes |-> <<>>]
    ELSE [error |-> NoError, bytes |-> <<n \div 256, n % 256>>]

Both(first, second) ==
    IF first.error # NoError THEN first
    ELSE IF second.error # NoError THEN second
    ELSE [error |-> NoError, bytes |-> first.bytes \o second.bytes]

Bytes(s) == [error |-> NoError, bytes |-> s]

\* The straight-drive case taken whenever the radius is 0.
drive_bytes_straight_first(velocity, radius) ==
    IF radius = 0
    THEN Both(to_bytes(velocity), Bytes(<<128, 0>>))
    ELSE IF velocity = 0 /\ radius > 0
    THEN Bytes(<<1, 244, 0, 1>>)
    ELSE IF velocity = 0 /\ radius < 0
    THEN Bytes(<<1, 244, 255, 255>>)
    ELSE Both(to_bytes(velocity), to_bytes(radius))

drive_bytes(velocity, radius) ==
    IF radius = 0 /\ velocity # 0
    THEN Both(to_bytes(velocity), Bytes(<<128, 0>>))
    ELSE IF velocity = 0 /\ radius > 0
    THEN Bytes(<<1, 244, 0, 1>>)
    ELSE IF velocity = 0 /\ radius < 0
    THEN Bytes(<<1, 244, 255, 255>>)
    ELSE Both(to_bytes(velocity), to_bytes(radius))

\* The encoding applied to the unclamped arguments.
data_bytes_unclamped(velocity, radius) == drive_bytes(velocity, radius)

data_bytes(velocity, radius) ==
    drive_bytes(Clamp(velocity, -500, 500), Clamp(radius, -2000, 2000))

drive(mode, velocity, radius, write_ok) ==
    IF data_bytes(velocity, radius).error # NoError
    THEN Outcome(data_bytes(velocity, radius).error, <<>>, FALSE, mode)
    ELSE send_command(mode, "Drive",
                      List(data_bytes(velocity, radius).bytes), write_ok)

DriveCall ==
    \E velocity \in Velocities, radius \in Radii, write_ok \in BOOLEAN :
        Return("drive", <<velocity, radius>>,
               drive(current_mode, velocity, radius, write_ok))

(***************************************************************************)
(* RoombaOI.set_song                                                       *)
(***************************************************************************)
MAX_NOTES_COUNT == 16

LengthMismatch == <<"ValueError", "Length of notes and durations not match">>

EmptyInput == <<"ValueError", "At least one note must be provided">>

TooManyNotes == <<"ValueError", "Only 16 notes allowed">>

Scale(n) == [i \in 1..n |-> 30 + i]

Beat(n) == [i \in 1..n |-> 2 * i]

\* The song of experiment.py.
OldMcDonald ==
    << <<60, 60, 60, 55, 57, 57, 55, 64, 64, 62, 62, 60>>,
       <<32, 32, 32, 32, 32, 32, 64, 32, 32, 32, 32, 64>> >>

Songs ==
    { << <<>>, <<>> >>, << <<60>>, <<>> >>, << <<>>, <<32>> >>,
      << <<60, 62>>, <<32, 64>> >>, << <<-1>>, <<256>> >>, OldMcDonald,
      <<Scale(16), Beat(16)>>, <<Scale(17), Beat(17)>>,
      <<Scale(17), Beat(16)>>, <<Scale(16), Beat(17)>> }

SongNumbers == {-1, 0, 1, 300}

\* The notes followed by the durations instead of note, duration pairs.
zip_flat_appended(notes, durations) == notes \o durations

\* [v for zipped in zip(notes, durations) for v in zipped]
zip_flat(notes, durations) ==
    [i \in 1..(2 * Len(notes)) |->
        IF i % 2 = 1 THEN notes[(i + 1) \div 2] ELSE durations[i \div 2]]

\* set_song without the test against MAX_NOTES_COUNT.
set_song_unlimited(mode, song_number, notes, durations, write_ok) ==
    IF Len(notes) # Len(durations)
    THEN Outcome(LengthMismatch, <<>>, FALSE, mode)
    ELSE IF Len(notes) = 0
    THEN Outcome(EmptyInput, <<>>, FALSE, mode)
    ELSE send_command(mode, "Song",
                      List(<<song_number, Len(notes)>> \o
                           zip_flat(notes, durations)), write_ok)

set_song(mode, song_number, notes, durations, write_ok) ==
    IF Len(notes) # Len(durations)
    THEN Outcome(LengthMismatch, <<>>, FALSE, mode)
    ELSE IF Len(notes) = 0
    THEN Outcome(EmptyInput, <<>>, FALSE, mode)
    ELSE IF Len(notes) > MAX_NOTES_COUNT
    THEN Outcome(TooManyNotes, <<>>, FALSE, mode)
    ELSE send_command(mode, "Song",
                      List(<<song_number, Len(notes)>> \o
                           zip_flat(notes, durations)), write_ok)

SetSong ==
    \E song_number \in SongNumbers, song \in Songs, write_ok \in BOOLEAN :
        Return("set_song", <<song_number, song[1], song[2]>>,
               set_song(current_mode, song_number, song[1], song[2],
                        write_ok))

(***************************************************************************)
(* RoombaOI.set_schedule                                                   *)
(***************************************************************************)
Weekday == 0..6

InvalidWeekday == <<"ValueError", "is not a valid Weekday">>

\* The positions of the hour and the minute in data_bytes, counted from 0.
weekday_index ==
    [weekday \in Weekday |->
        << <<1, 2>>, <<3, 4>>, <<5, 6>>, <<7, 8>>, <<9, 10>>, <<11, 12>>,
           <<13, 14>> >>[weekday + 1]]

\* byte | (1 << weekday)
BitOr(byte, weekday) ==
    IF (byte \div (2 ^ weekday)) % 2 = 1 THEN byte ELSE byte + 2 ^ weekday

\* The weekday bit assigned instead of or-ed into the mask.
schedule_entry_overwrites(data, schedule) ==
    [data EXCEPT ![1] = 2 ^ schedule[1],
                 ![weekday_index[schedule[1]][1] + 1] = schedule[2] % 24,
                 ![weekday_index[schedule[1]][2] + 1] = schedule[3] % 60]

schedule_entry(data, schedule) ==
    [data EXCEPT ![1] = BitOr(@, schedule[1]),
                 ![weekday_index[schedule[1]][1] + 1] = schedule[2] % 24,
                 ![weekday_index[schedule[1]][2] + 1] = schedule[3] % 60]

RECURSIVE schedule_bytes(_, _)
schedule_bytes(data, schedules) ==
    IF schedules = <<>> THEN data
    ELSE schedule_bytes(schedule_entry(data, Head(schedules)),
                        Tail(schedules))

EveryDay == [i \in 1..7 |-> <<i - 1, 23, 59>>]

Schedules ==
    {None, List(<<>>), List(<< <<3, 15, 0>>, <<6, 10, 45>> >>),
     List(<< <<6, 10, 45>>, <<3, 15, 0>> >>),
     List(<< <<1, 25, 61>>, <<1, 0, 0>> >>), List(<< <<1, -1, -1>> >>),
     List(<< <<0, 24, 60>>, <<2, 7, 30>> >>), List(<< <<7, 15, 0>> >>),
     List(<< <<2, 7, 30>>, <<-1, 1, 1>> >>), List(EveryDay)}

set_schedule(mode, schedules, write_ok) ==
    IF \E i \in 1..Len(schedules.val) : schedules.val[i][1] \notin Weekday
    THEN Outcome(InvalidWeekday, <<>>, FALSE, mode)
    ELSE send_command(mode, "Schedule",
                      List(schedule_bytes(Zeros(15), schedules.val)),
                      write_ok)

SetSchedule ==
    \E schedules \in Schedules, write_ok \in BOOLEAN :
        Return("set_schedule", <<schedules>>,
               set_schedule(current_mode, schedules, write_ok))

(***************************************************************************)
(* RoombaOI.set_baud_rate                                                  *)
(***************************************************************************)
BaudRate == 0..11

set_baud_rate(mode, baud_rate, write_ok) ==
    send_command(mode, "Baud", Bare(baud_rate), write_ok)

\* The baudrate property is assigned when send_command returns normally.
SetBaudRate ==
    \E baud_rate \in BaudRate, write_ok \in BOOLEAN :
        /\ Finish("set_baud_rate", <<baud_rate>>,
                  set_baud_rate(current_mode, baud_rate, write_ok))
        /\ baudrate' =
               IF set_baud_rate(current_mode, baud_rate, write_ok).error
                      = NoError
               THEN baud_rate
               ELSE baudrate
        /\ UNCHANGED callers

(***************************************************************************)
(* RoombaOI.set_clock                                                      *)
(***************************************************************************)
WeekdayName ==
    [weekday \in Weekday |->
        <<"Sunday", "Monday", "Tuesday", "Wednesday", "Thursday", "Friday",
          "Saturday">>[weekday + 1]]

ClockDays == {0, 3, 7}

ClockHours == {0, 15, 25}

ClockMinutes == {0, 45, 61}

\* send_command receives the Weekday member as its command.
set_clock(mode, weekday, hour, minute, write_ok) ==
    IF weekday \notin Weekday
    THEN Outcome(InvalidWeekday, <<>>, FALSE, mode)
    ELSE send_command(mode, WeekdayName[weekday],
                      List(<<hour % 24, minute % 60>>), write_ok)

SetClock ==
    \E weekday \in ClockDays, hour \in ClockHours, minute \in ClockMinutes,
       write_ok \in BOOLEAN :
        Return("set_clock", <<weekday, hour, minute>>,
               set_clock(current_mode, weekday, hour, minute, write_ok))

(***************************************************************************)
(* RoombaOI.play_song                                                      *)
(***************************************************************************)
PlayNumbers == {-3, 0, 2, 4, 5, 9}

\* play_song without the clamp to 0..4.
play_song_unclamped(mode, song_number, write_ok) ==
    send_command(mode, "Play", List(<<song_number>>), write_ok)

play_song(mode, song_number, write_ok) ==
    send_command(mode, "Play", List(<<Max(0, Min(song_number, 4))>>),
                 write_ok)

PlaySong ==
    \E song_number \in PlayNumbers, write_ok \in BOOLEAN :
        Return("play_song", <<song_number>>,
               play_song(current_mode, song_number, write_ok))

(***************************************************************************)
(* RoombaOI.set_motor: the body is pass.                                   *)
(***************************************************************************)
MotorSpeeds == {<<0, 0, 0>>, <<127, -127, 127>>}

set_motor(mode, main_brush, side_brush, vacuum) ==
    Outcome(NoError, <<>>, FALSE, mode)

SetMotor ==
    \E speeds \in MotorSpeeds :
        Return("set_motor", speeds,
               set_motor(current_mode, speeds[1], speeds[2], speeds[3]))

Next ==
    \/ SendCommand
    \/ SetMode
    \/ DriveCall
    \/ SetSong
    \/ SetSchedule
    \/ SetBaudRate
    \/ SetClock
    \/ PlaySong
    \/ SetMotor

Spec == Init /\ [][Next]_vars

(***************************************************************************)
(* Two callers of send_command on one session.  A send is three steps:     *)
(* the mode guard, the write, and the mode assignment after the pause.     *)
(* With locking, a caller takes the lock before the guard and gives it     *)
(* back when its send returns or raises.                                   *)
(***************************************************************************)
InitCallers == Constructed /\ locking \in BOOLEAN

\* The commands the two callers send: those of experiment.py, and Full.
CallerCommands == {"Start", "Safe", "Full", "Power", "Drive", "Play", "Song"}

\* A lock that does not exclude anyone.
MayEnter_unlocked(t) == TRUE

MayEnter(t) == locking => owner = "none"

Taken(t) == IF locking THEN t ELSE owner

Released == IF locking THEN "none" ELSE owner

\* if self.current_mode not in command.value[0]: raise ValueError
Reject(t) ==
    /\ pc[t] = "idle"
    /\ MayEnter(t)
    /\ \E command \in CallerCommands :
          /\ current_mode \notin allowed_modes(command)
          /\ job' = [job EXCEPT ![t] = [command |-> command,
                                        write_ok |-> FALSE, raised |-> TRUE]]
    /\ UNCHANGED <<current_mode, call, last_switch, baudrate, pc, locking,
                   owner, wire>>

Validate(t) ==
    /\ pc[t] = "idle"
    /\ MayEnter(t)
    /\ \E command \in CallerCommands :
          /\ current_mode \in allowed_modes(command)
          /\ job' = [job EXCEPT ![t] = [command |-> command,
                                        write_ok |-> FALSE, raised |-> FALSE]]
    /\ pc' = [pc EXCEPT ![t] = "write"]
    /\ owner' = Taken(t)
    /\ UNCHANGED <<current_mode, call, last_switch, baudrate, locking, wire>>

\* self.comm_device.send(bytes(payload)), then time.sleep(0.05)
Write(t) ==
    /\ pc[t] = "write"
    /\ \E write_ok \in BOOLEAN :
          /\ job' = [job EXCEPT ![t].write_ok = write_ok]
          /\ wire' = [command |-> job[t].command, mode |-> current_mode,
                      write_ok |-> write_ok]
          /\ last_switch' =
                 Observe(last_switch,
                         Outcome(NoError, <<Payload(job[t].command, None)>>,
                                 write_ok, current_mode))
    /\ pc' = [pc EXCEPT ![t] = "update"]
    /\ UNCHANGED <<current_mode, call, baudrate, locking, owner>>

\* if command.value[1] != Mode.NoChange: self.current_mode = ...
Update(t) ==
    /\ pc[t] = "update"
    /\ current_mode' =
           ModeAfterWrite(current_mode, job[t].command, job[t].write_ok)
    /\ pc' = [pc EXCEPT ![t] = "idle"]
    /\ job' = [job EXCEPT ![t] = Idle]
    /\ owner' = Released
    /\ UNCHANGED <<call, last_switch, baudrate, locking, wire>>

NextCallers ==
    \E t \in Callers : Reject(t) \/ Validate(t) \/ Write(t) \/ Update(t)

SpecCallers == InitCallers /\ [][NextCallers]_vars

(***************************************************************************)
(* Properties                                                              *)
(***************************************************************************)
IsSend == call.op = "send_command"

IsSetMode == call.op = "set_mode"

IsDrive == call.op = "drive"

Unchanged == current_mode = call.mode_before

\* C1: a send_command of a command the current mode does not allow raises
\* a ValueError naming the command and the mode, writes nothing and leaves
\* the mode as it was.
C1_ModeViolation ==
    (IsSend /\ call.mode_before \notin allowed_modes(call.args[1])) =>
        /\ call.error =
               <<"ValueError", "not allowed", call.args[1], call.mode_before>>
        /\ call.sent = <<>>
        /\ Unchanged

C1_Witness ==
    /\ IsSend
    /\ call.args[1] = "Drive"
    /\ call.mode_before = Passive
    /\ call.error = <<"ValueError", "not allowed", "Drive", Passive>>
    /\ current_mode = Passive

\* C2: a send_command in an allowed mode whose write succeeds leaves the
\* mode at the command's result mode, or where it was for NoChange; Start
\* from Off gives Passive, Safe from Passive gives Safe, Full gives Full,
\* Power from any powered mode gives Passive.
C2_Transitions ==
    (IsSend /\ call.mode_before \in allowed_modes(call.args[1])
            /\ call.delivered) =>
        /\ current_mode = IF new_mode(call.args[1]) # NoChange
                          THEN new_mode(call.args[1])
                          ELSE call.mode_before
        /\ (call.args[1] = "Start" /\ call.mode_before = Off)
               => current_mode = Passive
        /\ (call.args[1] = "Safe" /\ call.mode_before = Passive)
               => current_mode = Safe
        /\ call.args[1] = "Full" => current_mode = Full
        /\ (call.args[1] = "Power" /\ call.mode_before \in Powered)
               => current_mode = Passive

C2_Witness ==
    /\ IsSend
    /\ call.args[1] = "Power"
    /\ call.mode_before = Full
    /\ call.delivered
    /\ current_mode = Passive

\* C3: a failed write in an allowed mode is swallowed: send_command returns
\* without raising and the mode is what it was, for every command.
C3_FailureSwallowed ==
    (IsSend /\ call.mode_before \in allowed_modes(call.args[1])
            /\ ~call.delivered) =>
        /\ call.error = NoError
        /\ Len(call.sent) = 1
        /\ Unchanged

C3_Witness ==
    /\ IsSend
    /\ call.args[1] = "Full"
    /\ call.mode_before = Passive
    /\ Len(call.sent) = 1
    /\ ~call.delivered
    /\ current_mode = Passive

ModeOfLastSwitch ==
    IF last_switch = 0 THEN Off
    ELSE IF last_switch \in {128, 133, 134, 135, 136, 143} THEN Passive
    ELSE IF last_switch \in {130, 131} THEN Safe
    ELSE IF last_switch = 132 THEN Full
    ELSE NoChange

\* C4: the mode is always one of Off, Passive, Safe, Full and is the result
\* mode of the last delivered mode-changing command (Off when there is
\* none); no step changes the mode without a delivered write.
C4_ModeFollowsWrites ==
    /\ [](current_mode \in {Off, Passive, Safe, Full}
          /\ current_mode = ModeOfLastSwitch)
    /\ [][current_mode' # current_mode =>
              (call'.delivered /\ Len(call'.sent) = 1)]_vars

C4_Witness ==
    /\ IsSend
    /\ call.args[1] = "Drive"
    /\ call.mode_before = Full
    /\ call.delivered
    /\ last_switch = 132
    /\ current_mode = Full

\* C5: the constructor starts from Off and writes the single byte 128; a
\* delivered write leaves the session Passive, a failed one is swallowed
\* and leaves it Off.
C5_Constructor ==
    call.op = "__init__" =>
        /\ call.mode_before = Off
        /\ call.sent = << <<128>> >>
        /\ call.error = NoError
        /\ call.delivered => current_mode = Passive
        /\ ~call.delivered => current_mode = Off

C5_Witness ==
    /\ call.op = "__init__"
    /\ ~call.delivered
    /\ call.error = NoError
    /\ current_mode = Off

IsPowerDown ==
    /\ \/ IsSetMode /\ call.args = <<Off>>
       \/ IsSend /\ call.args[1] = "Power"
    /\ call.mode_before \in Powered
    /\ call.delivered

\* C6 as stated: a delivered Power command leaves the session Off.
C6_Original == IsPowerDown => current_mode = Off

\* C6: a delivered Power command, as set_mode(Off) issues it, leaves every
\* powered mode for Passive, and a session that has left Off never
\* returns to it.
C6_PowerGivesPassive ==
    /\ [](IsPowerDown => current_mode = Passive)
    /\ [][current_mode # Off => current_mode' # Off]_vars

C6_Witness ==
    /\ IsSetMode
    /\ call.args = <<Off>>
    /\ call.mode_before = Safe
    /\ call.sent = << <<133>> >>
    /\ call.delivered
    /\ current_mode = Passive

TargetName(target) ==
    CASE target = Passive -> "Start"
      [] target = Safe -> "Safe"
      [] target = Full -> "Full"
      [] target = Off -> "Power"

TargetOpcode(target) ==
    CASE target = Passive -> 128
      [] target = Safe -> 131
      [] target = Full -> 132
      [] target = Off -> 133

\* C7: set_mode sends Start, Safe, Full or Power for Passive, Safe, Full or
\* Off under that command's mode guard, and raises ValueError for NoChange
\* or an unknown target without writing or changing the mode.
C7_SetMode ==
    IsSetMode =>
        IF call.args[1] \in {Off, Passive, Safe, Full}
        THEN IF call.mode_before \in
                    Command[TargetName(call.args[1])].allowed_modes
             THEN /\ call.error = NoError
                  /\ call.sent = << <<TargetOpcode(call.args[1])>> >>
                  /\ current_mode =
                         IF call.delivered
                         THEN Command[TargetName(call.args[1])].new_mode
                         ELSE call.mode_before
             ELSE /\ call.error =
                         <<"ValueError", "not allowed",
                           TargetName(call.args[1]), call.mode_before>>
                  /\ call.sent = <<>>
                  /\ Unchanged
        ELSE /\ call.error = <<"ValueError", "Invalid mode">>
             /\ call.sent = <<>>
             /\ Unchanged

C7_Witness ==
    /\ IsSetMode
    /\ call.args = <<NoChange>>
    /\ call.mode_before = Safe
    /\ call.error = <<"ValueError", "Invalid mode">>
    /\ current_mode = Safe

IsStop == IsDrive /\ call.args = <<0, 0>> /\ call.mode_before \in Driving

\* C8 as stated: drive(0, 0) transmits 137 and the bytes 00 00 80 00.
C8_Original == IsStop => call.sent = << <<137, 0, 0, 128, 0>> >>

\* C8: in Safe or Full mode drive(0, 0) transmits 137 and the bytes
\* 00 00 00 00, the plain encoding of velocity 0 and radius 0.
C8_StopBytes == IsStop => call.sent = << <<137, 0, 0, 0, 0>> >>

C8_Witness ==
    /\ IsStop
    /\ call.error = NoError
    /\ call.delivered
    /\ call.sent = << <<137, 0, 0, 0, 0>> >>

\* C9 as stated: in Safe or Full mode every drive with a velocity in
\* -500..500 and a radius in -2000..2000 makes exactly one write of five
\* bytes starting with 137 and does not fail before the write.
C9_Original ==
    (IsDrive /\ call.mode_before \in Driving
             /\ call.args[1] \in -500..500
             /\ call.args[2] \in -2000..2000) =>
        /\ call.error = NoError
        /\ Len(call.sent) = 1
        /\ Len(call.sent[1]) = 5
        /\ call.sent[1][1] = 137

Limit(x, bound) == IF x > bound THEN bound ELSE IF x < -bound THEN -bound ELSE x

\* C10: in Safe or Full mode, after clamping, velocity 0 with a positive
\* radius sends 01 F4 00 01, velocity 0 with a negative radius sends
\* 01 F4 FF FF, and radius 0 with a positive velocity v sends hi(v), lo(v),
\* 80 00; drive(200, 0) sends 00 C8 80 00 and drive(900, 0) sends what
\* drive(500, 0) sends.
C10_DriveCases ==
    (IsDrive /\ call.mode_before \in Driving) =>
        LET v == Limit(call.args[1], 500)
            r == Limit(call.args[2], 2000)
        IN  /\ (v = 0 /\ r > 0) => call.sent = << <<137, 1, 244, 0, 1>> >>
            /\ (v = 0 /\ r < 0) => call.sent = << <<137, 1, 244, 255, 255>> >>
            /\ (r = 0 /\ v > 0) =>
                   call.sent = << <<137, v \div 256, v % 256, 128, 0>> >>
            /\ call.args = <<200, 0>> =>
                   call.sent = << <<137, 0, 200, 128, 0>> >>
            /\ call.args \in {<<900, 0>>, <<500, 0>>} =>
                   call.sent = << <<137, 1, 244, 128, 0>> >>

C10_Witness ==
    /\ IsDrive
    /\ call.args = <<900, 0>>
    /\ call.mode_before = Safe
    /\ call.delivered
    /\ call.sent = << <<137, 1, 244, 128, 0>> >>

IsSetSong == call.op = "set_song"

\* C11: in every mode set_song raises the length-mismatch error when the
\* two lists differ in length, the empty-input error for equal lists of no
\* notes, and the too-many-notes error for equal lists of more than 16,
\* each time without writing a byte or changing the mode.
C11_SongRejected ==
    IsSetSong =>
        LET n == Len(call.args[2])
            m == Len(call.args[3])
            rejected == /\ call.sent = <<>>
                        /\ ~call.delivered
                        /\ Unchanged
        IN  /\ n # m =>
                 /\ rejected
                 /\ call.error = <<"ValueError",
                                   "Length of notes and durations not match">>
            /\ (n = m /\ n = 0) =>
                 /\ rejected
                 /\ call.error = <<"ValueError",
                                   "At least one note must be provided">>
            /\ (n = m /\ n > 16) =>
                 /\ rejected
                 /\ call.error = <<"ValueError", "Only 16 notes allowed">>

C11_Witness ==
    /\ IsSetSong
    /\ Len(call.args[2]) = 17
    /\ Len(call.args[3]) = 17
    /\ call.mode_before = Safe
    /\ call.error = <<"ValueError", "Only 16 notes allowed">>
    /\ call.sent = <<>>
    /\ current_mode = Safe

IsSongSent ==
    /\ IsSetSong
    /\ Len(call.args[2]) = Len(call.args[3])
    /\ Len(call.args[2]) \in 1..16
    /\ call.mode_before \in Powered

Byte(x) == IF x > 255 THEN 255 ELSE IF x < 0 THEN 0 ELSE x

\* C12 as stated: a well-formed set_song in a powered mode writes exactly
\* 140, the song number, the count and the note, duration pairs.
C12_Original ==
    IsSongSent =>
        /\ Len(call.sent) = 1
        /\ Len(call.sent[1]) = 3 + 2 * Len(call.args[2])
        /\ call.sent[1][1] = 140
        /\ call.sent[1][2] = call.args[1]
        /\ call.sent[1][3] = Len(call.args[2])
        /\ \A i \in 1..Len(call.args[2]) :
              /\ call.sent[1][2 + 2 * i] = call.args[2][i]
              /\ call.sent[1][3 + 2 * i] = call.args[3][i]
        /\ Unchanged

\* C12: a well-formed set_song of n notes (1 <= n <= 16) in a powered mode
\* writes 3 + 2n <= 35 bytes: 140, the song number, n and the pairs note,
\* duration in order, each value clamped to 0..255; the mode is unchanged;
\* setSong(1, [60,62], [32,64]) writes 140 1 2 60 32 62 64.
C12_SongBytes ==
    IsSongSent =>
        /\ call.error = NoError
        /\ Len(call.sent) = 1
        /\ Len(call.sent[1]) = 3 + 2 * Len(call.args[2])
        /\ Len(call.sent[1]) <= 35
        /\ call.sent[1][1] = 140
        /\ call.sent[1][2] = Byte(call.args[1])
        /\ call.sent[1][3] = Len(call.args[2])
        /\ \A i \in 1..Len(call.args[2]) :
              /\ call.sent[1][2 + 2 * i] = Byte(call.args[2][i])
              /\ call.sent[1][3 + 2 * i] = Byte(call.args[3][i])
        /\ Unchanged
        /\ call.args = <<1, <<60, 62>>, <<32, 64>> >> =>
               call.sent = << <<140, 1, 2, 60, 32, 62, 64>> >>

C12_Witness ==
    /\ IsSongSent
    /\ call.args = <<1, <<60, 62>>, <<32, 64>> >>
    /\ call.delivered
    /\ call.sent = << <<140, 1, 2, 60, 32, 62, 64>> >>
    /\ current_mode = Passive

IsScheduleSent ==
    /\ call.op = "set_schedule"
    /\ call.mode_before \in Powered
    /\ \A k \in 1..Len(call.args[1].val) : call.args[1].val[k][1] \in 0..6

Entries == call.args[1].val

Present(i) == \E k \in 1..Len(Entries) : Entries[k][1] = i

\* The entry that names weekday i last.
EntryOf(i) ==
    Entries[CHOOSE k \in 1..Len(Entries) :
               /\ Entries[k][1] = i
               /\ \A j \in (k + 1)..Len(Entries) : Entries[j][1] # i]

Bit(byte, i) == (byte \div (2 ^ i)) % 2

\* C13: in a powered mode set_schedule writes 167 and 15 bytes: bit i of
\* the first is set exactly for the weekdays i named by the entries, the
\* bytes at offsets 1+2i and 2+2i hold hour mod 24 and minute mod 60 of
\* weekday i's entry (the last one that names it) and 0 for a weekday not
\* named; no entries give 15 zero bytes; Wednesday 15:00 and Saturday
\* 10:45 set bits 3 and 6 only.
C13_ScheduleBytes ==
    IsScheduleSent =>
        /\ call.error = NoError
        /\ Len(call.sent) = 1
        /\ Len(call.sent[1]) = 16
        /\ call.sent[1][1] = 167
        /\ call.sent[1][2] \in 0..127
        /\ \A i \in 0..6 :
              IF Present(i)
              THEN /\ Bit(call.sent[1][2], i) = 1
                   /\ call.sent[1][3 + 2 * i] = EntryOf(i)[2] % 24
                   /\ call.sent[1][4 + 2 * i] = EntryOf(i)[3] % 60
              ELSE /\ Bit(call.sent[1][2], i) = 0
                   /\ call.sent[1][3 + 2 * i] = 0
                   /\ call.sent[1][4 + 2 * i] = 0
        /\ Entries = <<>> =>
               call.sent = << <<167, 0, 0, 0, 0, 0, 0, 0, 0, 0, 0, 0, 0, 0,
                                0, 0>> >>
        /\ Entries = << <<3, 15, 0>>, <<6, 10, 45>> >> =>
               call.sent = << <<167, 72, 0, 0, 0, 0, 0, 0, 15, 0, 0, 0, 0, 0,
                                10, 45>> >>
        /\ Unchanged

C13_Witness ==
    /\ IsScheduleSent
    /\ Entries = << <<3, 15, 0>>, <<6, 10, 45>> >>
    /\ call.delivered
    /\ call.sent[1][2] = 72
    /\ current_mode = Passive

\* C14 as stated: in a powered mode set_baud_rate writes 129 and the rate
\* code, then sets the transport's baud rate to the rate, and leaves the
\* mode unchanged.
C14_Original ==
    (call.op = "set_baud_rate" /\ call.mode_before \in Powered) =>
        /\ call.error = NoError
        /\ call.sent = << <<129, call.args[1]>> >>
        /\ baudrate = call.args[1]
        /\ Unchanged

\* C15 as stated: in a powered mode set_clock writes 168 and the bytes
\* weekday, hour mod 24, minute mod 60, and leaves the mode unchanged.
C15_Original ==
    (call.op = "set_clock" /\ call.mode_before \in Powered
                           /\ call.args[1] \in 0..6) =>
        /\ call.error = NoError
        /\ call.sent = << <<168, call.args[1], call.args[2] % 24,
                            call.args[3] % 60>> >>
        /\ Unchanged

ExtraOf(extra) == IF extra.kind = "None" THEN <<>> ELSE extra.val

\* C16: every byte handed to the transport is in 0..255; send_command
\* writes the opcode followed by the extra values in order, one byte each,
\* a value above 255 as 255 and a value below 0 as 0 (300 as 255).
C16_BytesClamped ==
    /\ \A k \in 1..Len(call.sent) :
          \A i \in 1..Len(call.sent[k]) : call.sent[k][i] \in 0..255
    /\ (IsSend /\ call.sent # <<>>) =>
          /\ Len(call.sent) = 1
          /\ Len(call.sent[1]) = 1 + Len(ExtraOf(call.args[2]))
          /\ call.sent[1][1] = Command[call.args[1]].bytes[1]
          /\ \A i \in 1..Len(ExtraOf(call.args[2])) :
                call.sent[1][i + 1] = Byte(ExtraOf(call.args[2])[i])
          /\ ExtraOf(call.args[2]) = <<300>> => call.sent[1][2] = 255
          /\ ExtraOf(call.args[2]) = <<-5, 7>> =>
                 (call.sent[1][2] = 0 /\ call.sent[1][3] = 7)

C16_Witness ==
    /\ IsSend
    /\ call.args[1] = "Motors"
    /\ ExtraOf(call.args[2]) = <<300>>
    /\ call.delivered
    /\ call.sent = << <<138, 255>> >>

IsPlay == call.op = "play_song"

\* C17: in Safe or Full mode play_song(n) writes 141 and n clamped to 0..4
\* and leaves the mode unchanged; in Off or Passive mode it raises the
\* mode-violation error and writes nothing.
C17_PlaySong ==
    IsPlay =>
        /\ call.mode_before \in {Safe, Full} =>
              /\ call.error = NoError
              /\ call.sent =
                     << <<141, IF call.args[1] < 0 THEN 0
                               ELSE IF call.args[1] > 4 THEN 4
                               ELSE call.args[1]>> >>
              /\ Unchanged
        /\ call.mode_before \in {Off, Passive} =>
              /\ call.error =
                     <<"ValueError", "not allowed", "Play", call.mode_before>>
              /\ call.sent = <<>>
              /\ Unchanged

C17_Witness ==
    /\ IsPlay
    /\ call.args = <<9>>
    /\ call.mode_before = Full
    /\ call.delivered
    /\ call.sent = << <<141, 4>> >>
    /\ current_mode = Full

Actuators == {137, 138, 141, 144, 145, 146}

\* The last call was a delivered Start, Power, Spot, Clean, Max or Dock
\* issued in Safe or Full mode.
IsDrop ==
    /\ \/ IsSend /\ call.args[1] \in
                      {"Start", "Power", "Spot", "Clean", "Max", "Dock"}
       \/ IsSetMode /\ call.args[1] \in {Passive, Off}
    /\ call.mode_before \in {Safe, Full}
    /\ call.delivered

\* C18 as stated: an actuator payload (137, 138, 141, 144, 145, 146) is
\* written only in Safe or Full mode; a delivered Start, Power, Spot,
\* Clean, Max or Dock from Safe or Full leaves the session Passive; and a
\* drive or play_song call that follows raises the mode-violation error.
C18_Original ==
    /\ [](\A k \in 1..Len(call.sent) :
             call.sent[k][1] \in Actuators =>
                 call.mode_before \in {Safe, Full})
    /\ [](IsDrop => current_mode = Passive)
    /\ [][(IsDrop /\ call'.op \in {"drive", "play_song"}) =>
              /\ Len(call'.error) = 4
              /\ call'.error[2] = "not allowed"
              /\ call'.error[4] = Passive
              /\ call'.sent = <<>>]_vars

C18_Parts ==
    /\ \A k \in 1..Len(call.sent) :
          call.sent[k][1] \in Actuators => call.mode_before \in {Safe, Full}
    /\ IsDrop => current_mode = Passive

IsStart ==
    \/ IsSend /\ call.args[1] = "Start"
    \/ IsSetMode /\ call.args[1] = Passive

\* A call made in Off mode that is neither the constructor nor a Start.
IsOffCall == call.mode_before = Off /\ call.op # "__init__" /\ ~IsStart

IsModeViolation ==
    /\ Len(call.error) = 4
    /\ call.error[1] = "ValueError"
    /\ call.error[2] = "not allowed"
    /\ call.error[4] = call.mode_before

\* The calls whose arguments let them get as far as the mode guard of
\* send_command with a command of the catalog.
ReachesGuard ==
    \/ call.op \in {"send_command", "set_baud_rate", "play_song"}
    \/ IsSetMode /\ call.args[1] \in {Off, Safe, Full}
    \/ IsSetSong /\ Len(call.args[2]) = Len(call.args[3])
                 /\ Len(call.args[2]) \in 1..16
    \/ /\ call.op = "set_schedule"
       /\ \A k \in 1..Len(call.args[1].val) : call.args[1].val[k][1] \in 0..6
    \/ IsDrive /\ call.args[1] >= 0
               /\ (call.args[2] >= 0 \/ call.args[1] = 0)

\* C19 as stated: while the session is Off, every operation other than
\* Start raises the mode-violation error, whatever its arguments; and a
\* session that has left Off never returns to it.
C19_Original ==
    /\ [](IsOffCall => IsModeViolation)
    /\ [][current_mode # Off => current_mode' # Off]_vars

\* C19: a constructor whose Start write fails leaves the session Off;
\* while it is Off every operation other than Start writes nothing and
\* leaves it Off, raising the mode-violation error whenever its arguments
\* let it reach the guard of send_command (set_motor alone returns
\* normally); a Start writes opcode 128 and gives Passive when delivered; a
\* session that has left Off never returns to it.
C19_OffUntilStart ==
    /\ []((call.op = "__init__" /\ ~call.delivered) => current_mode = Off)
    /\ [](IsOffCall =>
             /\ call.sent = <<>>
             /\ current_mode = Off
             /\ ReachesGuard => IsModeViolation
             /\ call.error = NoError => call.op = "set_motor")
    /\ []((call.mode_before = Off /\ IsStart) =>
             /\ Len(call.sent) = 1
             /\ call.sent[1][1] = 128
             /\ current_mode = IF call.delivered THEN Passive ELSE Off)
    /\ [][current_mode # Off => current_mode' # Off]_vars

C19_Witness ==
    /\ IsSetSong
    /\ call.mode_before = Off
    /\ call.args[2] = <<60>>
    /\ call.args[3] = <<>>
    /\ call.error = <<"ValueError", "Length of notes and durations not match">>
    /\ call.sent = <<>>
    /\ current_mode = Off

\* The last write was of a command allowed in the mode current at the write.
WrittenAllowed == wire.mode \in Command[wire.command].allowed_modes

\* When no caller is between its write and its mode assignment, the mode
\* is that of the last delivered mode-changing command.
ModeReflects ==
    (\A t \in Callers : pc[t] # "update") => current_mode = ModeOfLastSwitch

\* C20: with a lock around the whole send (guard, write, mode assignment)
\* two callers keep every written command allowed in the mode current at
\* its write and the mode equal to that of the last delivered
\* mode-changing command; without the lock the interleaved steps of two
\* sends reach states where this fails (C20_Witness).
C20_LockPreserves == locking => (WrittenAllowed /\ ModeReflects)

C20_Witness ==
    /\ ~locking
    /\ wire.command = "Drive"
    /\ wire.mode = Passive
    /\ wire.write_ok
    /\ ~WrittenAllowed

C20_WitnessMode ==
    /\ ~locking
    /\ \A t \in Callers : pc[t] = "idle"
    /\ current_mode = Safe
    /\ last_switch = 132
====
